---- MODULE Spec2Model ----
(***************************************************************************)
(* Model of opencensus/ext/postgresql/trace.py: the psycopg2 tracing shim. *)
(*                                                                         *)
(*  - trace_integration replaces the driver module's connect symbol,       *)
(*  - connect forces cursor_factory = TraceCursor and delegates to the     *)
(*    driver connect imported at module load (pg_connect),                 *)
(*  - TraceCursor.__init__ rebinds execute / executemany on the instance   *)
(*    to trace_cursor_query(...).call,                                     *)
(*  - call wraps one driver query call in start_span / add_attribute /     *)
(*    end_span on the tracer found in the thread-local execution context.  *)
(*                                                                         *)
(* The driver (psycopg2) and the tracer are the environment: the driver    *)
(* binds its arguments with Python's call rules against psycopg2's         *)
(* signatures and then returns or raises as the environment chooses; the   *)
(* tracer keeps a stack of open spans (start_span pushes a new current     *)
(* span, end_span closes the current one).                                 *)
(***************************************************************************)
EXTENDS Integers, Sequences, FiniteSets, TLC

(* ---------------------------- bounds ----------------------------------- *)
MaxCalls == 2        \* query calls made in one behaviour
MaxConnects == 1     \* psycopg2.connect calls made in one behaviour
MaxInstalls == 2     \* trace_integration calls made in one behaviour
MaxDepth == 3        \* call depth after which Python raises RecursionError

(* --------------------------- constants --------------------------------- *)
MODULE_NAME == "postgresql"
CONN_WRAP_METHOD == "connect"
QUERY_WRAP_METHODS == <<"execute", "executemany">>

Threads == {1, 2}
NoTracer == 0                      \* None in the thread-local slot
Methods == {"execute", "executemany"}

ATTR_TYPE == "dependency.type"
ATTR_QUERY == "postgresql.query"
ATTR_METHOD == "postgresql.cursor.method.name"
ATTR_SUCCESS == "postgresql.success"
AttrKeys == {ATTR_TYPE, ATTR_QUERY, ATTR_METHOD, ATTR_SUCCESS}

(* ------------------------ Python values -------------------------------- *)
\* keyword arguments: a function from the keys given to their values
EmptyKw == [k \in {} |-> ""]

KwSet(kw, key, val) == [k \in (DOMAIN kw) \cup {key} |-> IF k = key THEN val ELSE kw[k]]

KwDel(kw, key) == [k \in (DOMAIN kw) \ {key} |-> kw[k]]

\* an exception instance: its class and its identity
NoErr == [type |-> "none", id |-> 0]

\* the Exception subclasses; KeyboardInterrupt derives from BaseException only
ExceptionTypes == {"TypeError", "OperationalError", "IntegrityError", "RecursionError"}

IsException(err) == err.type \in ExceptionTypes

Returned(v) == [kind |-> "return", val |-> v, err |-> NoErr]

Raised(e) == [kind |-> "raise", val |-> "", err |-> e]

NoOutcome == [kind |-> "none", val |-> "", err |-> NoErr]

(* --------------------- module symbol tables ---------------------------- *)
\* variant: the driver module is patched whatever function is installed
FuncModule_driver(f) == "psycopg2"

\* a function object is named by its definition; __module__ and __name__
FuncModule(f) == IF f = "pg_connect" THEN "psycopg2" ELSE "trace"

FuncName(f) == "connect"

VARIABLES
  modules,      \* symbol tables of the psycopg2 module and of this module
  symWrites,    \* per module: setattr calls made on its connect symbol
  installs,     \* calls of trace_integration so far
  lastConnect,  \* the latest psycopg2.connect(...) call made by the caller
  conn,         \* the connection the caller holds
  cursor,       \* per thread: the cursor it holds
  ambient,      \* per thread: the tracer in its execution context
  pc,           \* per thread: position inside a query call
  frame,        \* per thread: locals of the running query call
  spans,        \* every span created, by id
  stack,        \* per tracer: ids of its open spans, current span last
  wrapperOps,   \* start_span / end_span calls issued by the wrapper
  nCalls        \* query calls made so far

connVars == <<modules, symWrites, installs, lastConnect, conn>>
traceVars == <<spans, stack, wrapperOps>>
callVars == <<pc, frame, nCalls>>
vars == <<modules, symWrites, installs, lastConnect, conn, cursor, ambient,
          pc, frame, spans, stack, wrapperOps, nCalls>>

(* ------------------------ driver: connect ------------------------------ *)
\* psycopg2.connect(dsn=None, connection_factory=None, cursor_factory=None, **kwargs)
PgConnectParams == <<"dsn", "connection_factory", "cursor_factory">>

PgConnectBinds(pos, kw) ==
  /\ Len(pos) <= Len(PgConnectParams)
  /\ \A i \in 1..Len(pos) : PgConnectParams[i] \notin DOMAIN kw

PgConnectParam(pos, kw, i) ==
  IF i <= Len(pos) THEN pos[i]
  ELSE IF PgConnectParams[i] \in DOMAIN kw THEN kw[PgConnectParams[i]]
  ELSE "None"

NoConn == [open |-> FALSE, dsn |-> "None", cursor_factory |-> "None", id |-> 0]

\* the driver's connect: binds its arguments, then succeeds or fails as the
\* server decides (env); a connection remembers the cursor_factory it was given
pg_connect(pos, kw, env, id) ==
  IF ~PgConnectBinds(pos, kw)
    THEN [kind |-> "raise", err |-> [type |-> "TypeError", id |-> id], conn |-> NoConn]
  ELSE IF env # "ok"
    THEN [kind |-> "raise", err |-> [type |-> env, id |-> id], conn |-> NoConn]
  ELSE [kind |-> "return", err |-> NoErr,
        conn |-> [open |-> TRUE, dsn |-> PgConnectParam(pos, kw, 1),
                  cursor_factory |-> PgConnectParam(pos, kw, 3), id |-> id]]

\* kwargs['cursor_factory'] = TraceCursor
ForceCursorFactory(kw) == KwSet(kw, "cursor_factory", "TraceCursor")

\* variant: the delegate is looked up in the driver module at call time
Delegate_late == modules["psycopg2"]["connect"]

\* the name pg_connect in connect's globals: bound by the import at load time
Delegate == modules["trace"]["pg_connect"]

\* variant: a driver error is replaced by a new error
ReturnConn_wrap(r) ==
  IF r.kind = "raise" THEN [r EXCEPT !.err = [type |-> "OperationalError", id |-> 0]] ELSE r

\* conn = pg_connect(*args, **kwargs); return conn -- an error propagates
ReturnConn(r) == r

RecursionFailure(id) ==
  [drvCalls |-> 0, drvPos |-> <<>>, drvKw |-> EmptyKw, drvErr |-> NoErr,
   out |-> [kind |-> "raise", err |-> [type |-> "RecursionError", id |-> id], conn |-> NoConn]]

\* calling the function object f with (*pos, **kw)
RECURSIVE ApplyConnect(_, _, _, _, _, _)
ApplyConnect(f, pos, kw, env, id, depth) ==
  IF depth > MaxDepth THEN RecursionFailure(id)
  ELSE IF f = "pg_connect"
    THEN LET r == pg_connect(pos, kw, env, id)
         IN [drvCalls |-> 1, drvPos |-> pos, drvKw |-> kw,
             drvErr |-> r.err, out |-> r]
  ELSE \* f = "connect": the wrapper of this module
    LET r == ApplyConnect(Delegate, pos, ForceCursorFactory(kw), env, id, depth + 1)
    IN [r EXCEPT !.out = ReturnConn(r.out)]

ConnPos == { <<>>, <<"dsn">>, <<"dsn", "None", "MyCursor">> }

ConnKw == { EmptyKw, [cursor_factory |-> "MyCursor"], [host |-> "h"] }

ConnEnv == {"ok", "OperationalError"}

NoConnect ==
  [seq |-> 0, installed |-> 0, entry |-> "none", pos |-> <<>>, kw |-> EmptyKw, env |-> "ok",
   drvCalls |-> 0, drvPos |-> <<>>, drvKw |-> EmptyKw, drvErr |-> NoErr,
   out |-> [kind |-> "none", err |-> NoErr, conn |-> NoConn]]

\* def trace_integration(tracer=None)
trace_integration ==
  /\ installs < MaxInstalls
  /\ LET conn_func == modules["psycopg2"][CONN_WRAP_METHOD]
         conn_module == FuncModule(conn_func)
         name == FuncName(conn_func)
     IN /\ modules' = [modules EXCEPT ![conn_module][name] = modules["trace"]["connect"]]
        /\ symWrites' = [symWrites EXCEPT ![conn_module] = @ + 1]
  /\ installs' = installs + 1
  /\ UNCHANGED <<lastConnect, conn, cursor, ambient, pc, frame, spans, stack,
                 wrapperOps, nCalls>>

\* the caller evaluates psycopg2.connect(*pos, **kw)
connect(pos, kw, env) ==
  /\ lastConnect.seq < MaxConnects
  /\ LET f == modules["psycopg2"]["connect"]
         id == lastConnect.seq + 1
         r == ApplyConnect(f, pos, kw, env, id, 1)
     IN /\ lastConnect' = [seq |-> id, installed |-> installs, entry |-> f, pos |-> pos, kw |-> kw, env |-> env,
                           drvCalls |-> r.drvCalls, drvPos |-> r.drvPos,
                           drvKw |-> r.drvKw, drvErr |-> r.drvErr, out |-> r.out]
        /\ conn' = IF r.out.kind = "return" THEN r.out.conn ELSE conn
  /\ UNCHANGED <<modules, symWrites, installs, cursor, ambient, pc, frame,
                 spans, stack, wrapperOps, nCalls>>


(* ------------------------ driver: cursor ------------------------------- *)
\* cursor.execute(query, vars=None) and cursor.executemany(query, vars_list)
QueryParams(m) == IF m = "execute" THEN <<"query", "vars">> ELSE <<"query", "vars_list">>

QueryRequired(m) == IF m = "execute" THEN 1 ELSE 2

QueryGiven(m, pos, kw, i) == i <= Len(pos) \/ QueryParams(m)[i] \in DOMAIN kw

DriverBinds(m, pos, kw) ==
  /\ Len(pos) <= 2
  /\ \A i \in 1..Len(pos) : QueryParams(m)[i] \notin DOMAIN kw
  /\ \A k \in DOMAIN kw : \E i \in 1..2 : QueryParams(m)[i] = k
  /\ \A i \in 1..QueryRequired(m) : QueryGiven(m, pos, kw, i)

DriverParam(m, pos, kw, i) ==
  IF i <= Len(pos) THEN pos[i]
  ELSE IF QueryParams(m)[i] \in DOMAIN kw THEN kw[QueryParams(m)[i]]
  ELSE "None"

NoStatement == [query |-> "", vars |-> ""]

\* what the driver executes for a call it accepts
DriverStatement(m, pos, kw) ==
  IF DriverBinds(m, pos, kw)
    THEN [query |-> DriverParam(m, pos, kw, 1), vars |-> DriverParam(m, pos, kw, 2)]
    ELSE NoStatement

Results == {"None", "r1"}

QueryEnv == Results \cup {"IntegrityError", "KeyboardInterrupt"}

\* the driver's own method m called with (*pos, **kw): the outcome env is the
\* server's, unless the arguments do not bind
cursor_method(m, pos, kw, env, id) ==
  IF ~DriverBinds(m, pos, kw) THEN Raised([type |-> "TypeError", id |-> id])
  ELSE IF env \in Results THEN Returned(env)
  ELSE Raised([type |-> env, id |-> id])

\* argument lists a caller passes to cursor.execute / cursor.executemany
ArgLists ==
  { [pos |-> <<>>, kw |-> EmptyKw],
    [pos |-> <<"SELECT 1">>, kw |-> EmptyKw],
    [pos |-> <<"INSERT", "v">>, kw |-> EmptyKw],
    [pos |-> <<>>, kw |-> [query |-> "INSERT", vars_list |-> "v"]],
    [pos |-> <<"SELECT 1">>, kw |-> [vars |-> "v"]] }

(* ------------------------------ tracer --------------------------------- *)
PyBool(b) == IF b THEN "True" ELSE "False"

NewSpan(tr, owner) ==
  [tracer |-> tr, owner |-> owner, name |-> "", span_kind |-> "",
   attrs |-> [k \in AttrKeys |-> "unset"], attrsBy |-> {},
   ended |-> 0, endedBy |-> {}]

FreshId(sp) == CHOOSE i \in 1..(Cardinality(DOMAIN sp) + 1) : i \notin DOMAIN sp

\* tracer.start_span(): a new span becomes the tracer's current span
TracerStart(tb, tr, owner) ==
  LET id == FreshId(tb.spans)
  IN [spans |-> [i \in (DOMAIN tb.spans) \cup {id} |->
                   IF i = id THEN NewSpan(tr, owner) ELSE tb.spans[i]],
      stack |-> [tb.stack EXCEPT ![tr] = Append(@, id)],
      id |-> id]

\* span.add_attribute(key, value), done by call `by`
SpanAddAttribute(sp, id, key, value, by) ==
  IF id \in DOMAIN sp
    THEN [sp EXCEPT ![id].attrs[key] = value, ![id].attrsBy = @ \cup {by}]
    ELSE sp

\* tracer.end_span(): the tracer's current span is closed and its parent
\* becomes current; with no current span nothing happens
TracerEnd(tb, tr, by) ==
  IF tb.stack[tr] = <<>> THEN [spans |-> tb.spans, stack |-> tb.stack]
  ELSE LET id == tb.stack[tr][Len(tb.stack[tr])]
       IN [spans |-> [tb.spans EXCEPT ![id].ended = @ + 1, ![id].endedBy = @ \cup {by}],
           stack |-> [tb.stack EXCEPT ![tr] = SubSeq(@, 1, Len(@) - 1)]]

OnStack(st, id) == \E tr \in DOMAIN st : \E i \in 1..Len(st[tr]) : st[tr][i] = id

\* the closed spans of `owner` are exported and no longer held
Exported(sp, st, owner) ==
  [i \in {j \in DOMAIN sp : sp[j].owner # owner \/ sp[j].ended = 0 \/ OnStack(st, j)} |-> sp[i]]

(* ------------------------------ cursor --------------------------------- *)
NoCursor == [cls |-> "none", methods |-> [m \in Methods |-> [wrapped |-> FALSE, query_func |-> m]]]

RawCursor(cls) == [cls |-> cls, methods |-> [m \in Methods |-> [wrapped |-> FALSE, query_func |-> m]]]

\* variant: every wrapper closes over the last method of the loop
trace_cursor_query_late(query_func) ==
  [wrapped |-> TRUE, query_func |-> QUERY_WRAP_METHODS[Len(QUERY_WRAP_METHODS)]]

\* trace_cursor_query(query_func): the wrapper keeps query_func in its closure
trace_cursor_query(query_func) == [wrapped |-> TRUE, query_func |-> query_func.query_func]

\* TraceCursor.__init__: for func in QUERY_WRAP_METHODS: setattr(self, name, wrapped)
RECURSIVE WrapMethods(_, _)
WrapMethods(methods, i) ==
  IF i > Len(QUERY_WRAP_METHODS) THEN methods
  ELSE LET query_func == methods[QUERY_WRAP_METHODS[i]]
           wrapped == trace_cursor_query(query_func)
       IN WrapMethods([methods EXCEPT ![query_func.query_func] = wrapped], i + 1)

TraceCursor__init__ == [cls |-> "TraceCursor", methods |-> WrapMethods(RawCursor("TraceCursor").methods, 1)]

\* connection.cursor(): the connection's cursor_factory builds the cursor
NewCursor(t) ==
  /\ pc[t] = "idle"
  /\ conn.open
  /\ cursor' = [cursor EXCEPT ![t] =
                  IF conn.cursor_factory = "TraceCursor" THEN TraceCursor__init__
                  ELSE IF conn.cursor_factory = "None" THEN RawCursor("cursor")
                  ELSE RawCursor(conn.cursor_factory)]
  /\ cursor'[t] # cursor[t]
  /\ UNCHANGED <<connVars, ambient, callVars, traceVars>>


(* --------------------- trace_cursor_query.call ------------------------- *)
NoFrame ==
  [callno |-> 0, method |-> "none", pos |-> <<>>, kw |-> EmptyKw,
   wrapped |-> FALSE, query_func |-> "none",
   query |-> "", args |-> <<>>, kwargs |-> EmptyKw,
   tracer |-> NoTracer, span |-> 0, success |-> TRUE,
   drvCalls |-> 0, drvPos |-> <<>>, drvKw |-> EmptyKw, drvOut |-> NoOutcome,
   out |-> NoOutcome, log |-> <<>>]

Ev(what, key) == <<what, key>>

\* def call(query, *args, **kwargs): how Python binds the caller's arguments
CallBinds(pos, kw) ==
  \/ Len(pos) >= 1 /\ "query" \notin DOMAIN kw
  \/ Len(pos) = 0 /\ "query" \in DOMAIN kw

CallQuery(pos, kw) == IF Len(pos) >= 1 THEN pos[1] ELSE kw["query"]

CallArgs(pos) == IF Len(pos) >= 1 THEN Tail(pos) ELSE <<>>

CallKwargs(kw) == KwDel(kw, "query")

\* variant: only the query is handed on
PassedPos_queryOnly(f) == <<f.query>>

\* query_func(query, *args, **kwargs): the arguments handed to the driver
PassedPos(f) == <<f.query>> \o f.args

PassedKw(f) == f.kwargs

\* variant: the tracer is kept in one slot shared by all calls
EndTracer_shared(t) ==
  LET busy == {u \in Threads : frame[u].tracer # NoTracer}
  IN frame[CHOOSE u \in busy : \A w \in busy : u <= w].tracer

\* the tracer on which the wrapper ends the span: the local fetched at entry
EndTracer(t) == frame[t].tracer

\* the span on which the wrapper records the outcome: the local `span`
AttrSpan(t) == frame[t].span

\* except Exception as err: success = False
SuccessAfter(out) == ~(out.kind = "raise" /\ IsException(out.err))

\* raise err / return result
CallOutcome(out) == out

\* tracer = execution_context.get_opencensus_tracer(): the slot of the thread
get_opencensus_tracer(t) == ambient[t]

\* the caller evaluates cursor.<m>(*al.pos, **al.kw); a wrapped method binds
\* its arguments and fetches the tracer; if tracer is None it passes through
Invoke(t, m, al) ==
  /\ pc[t] = "idle"
  /\ cursor[t].cls # "none"
  /\ nCalls < MaxCalls
  /\ nCalls' = nCalls + 1
  /\ LET meth == cursor[t].methods[m]
         base == [NoFrame EXCEPT !.callno = nCalls + 1, !.method = m,
                                 !.pos = al.pos, !.kw = al.kw,
                                 !.wrapped = meth.wrapped,
                                 !.query_func = meth.query_func]
     IN IF ~meth.wrapped
          THEN /\ frame' = [frame EXCEPT ![t] = base]
               /\ pc' = [pc EXCEPT ![t] = "direct"]
        ELSE IF CallBinds(al.pos, al.kw)
          THEN /\ frame' = [frame EXCEPT ![t] =
                              [base EXCEPT !.query = CallQuery(al.pos, al.kw),
                                           !.args = CallArgs(al.pos),
                                           !.kwargs = CallKwargs(al.kw),
                                           !.tracer = get_opencensus_tracer(t),
                                           !.log = <<Ev("get_opencensus_tracer", "")>>]]
               /\ pc' = [pc EXCEPT ![t] = IF get_opencensus_tracer(t) = NoTracer
                                            THEN "passthrough" ELSE "start_span"]
        ELSE /\ frame' = [frame EXCEPT ![t] =
                            [base EXCEPT !.out = Raised([type |-> "TypeError", id |-> 0])]]
             /\ pc' = [pc EXCEPT ![t] = "done"]
  /\ UNCHANGED <<connVars, cursor, ambient, traceVars>>

\* a cursor whose methods are the driver's own: the call goes to the driver
direct(t, env) ==
  /\ pc[t] = "direct"
  /\ LET f == frame[t]
         r == cursor_method(f.query_func, f.pos, f.kw, env, f.callno)
     IN frame' = [frame EXCEPT ![t] =
                    [f EXCEPT !.drvCalls = @ + 1, !.drvPos = f.pos, !.drvKw = f.kw,
                              !.drvOut = r, !.out = r,
                              !.log = Append(@, Ev("query_func", ""))]]
  /\ pc' = [pc EXCEPT ![t] = "done"]
  /\ UNCHANGED <<connVars, cursor, ambient, traceVars, nCalls>>

\* return query_func(query, *args, **kwargs)
passthrough(t, env) ==
  /\ pc[t] = "passthrough"
  /\ LET f == frame[t]
         r == cursor_method(f.query_func, PassedPos(f), PassedKw(f), env, f.callno)
     IN frame' = [frame EXCEPT ![t] =
                    [f EXCEPT !.drvCalls = @ + 1, !.drvPos = PassedPos(f),
                              !.drvKw = PassedKw(f), !.drvOut = r,
                              !.out = CallOutcome(r),
                              !.log = Append(@, Ev("query_func", ""))]]
  /\ pc' = [pc EXCEPT ![t] = "done"]
  /\ UNCHANGED <<connVars, cursor, ambient, traceVars, nCalls>>

\* span = tracer.start_span(); span.name = ...; span.span_kind = ...; then
\* the three span.add_attribute calls made before the driver is called
start_span(t) ==
  /\ pc[t] = "start_span"
  /\ LET f == frame[t]
         r == TracerStart([spans |-> spans, stack |-> stack], f.tracer, f.callno)
         s0 == [r.spans EXCEPT ![r.id].name = "database",
                               ![r.id].span_kind = "UNSPECIFIED"]
         s1 == SpanAddAttribute(s0, r.id, ATTR_TYPE, MODULE_NAME, f.callno)
         s2 == SpanAddAttribute(s1, r.id, ATTR_QUERY, f.query, f.callno)
         s3 == SpanAddAttribute(s2, r.id, ATTR_METHOD, f.query_func, f.callno)
     IN /\ spans' = s3
        /\ stack' = r.stack
        /\ frame' = [frame EXCEPT ![t].span = r.id,
                                  ![t].log = @ \o <<Ev("start_span", ""),
                                                    Ev("add_attribute", ATTR_TYPE),
                                                    Ev("add_attribute", ATTR_QUERY),
                                                    Ev("add_attribute", ATTR_METHOD)>>]
  /\ wrapperOps' = [wrapperOps EXCEPT !.start = @ + 1]
  /\ pc' = [pc EXCEPT ![t] = "query_func"]
  /\ UNCHANGED <<connVars, cursor, ambient, nCalls>>

\* success = True; try: result = query_func(...); except Exception as err
query_func(t, env) ==
  /\ pc[t] = "query_func"
  /\ LET f == frame[t]
         r == cursor_method(f.query_func, PassedPos(f), PassedKw(f), env, f.callno)
     IN frame' = [frame EXCEPT ![t] =
                    [f EXCEPT !.drvCalls = @ + 1, !.drvPos = PassedPos(f),
                              !.drvKw = PassedKw(f), !.drvOut = r,
                              !.success = SuccessAfter(r),
                              !.log = Append(@, Ev("query_func", ""))]]
  /\ pc' = [pc EXCEPT ![t] = "finally"]
  /\ UNCHANGED <<connVars, cursor, ambient, traceVars, nCalls>>

\* variant: the span is closed after the try block, not in a finally block
Finally_onlyOnSuccess(tb, f, sid, tr) ==
  LET s1 == SpanAddAttribute(tb.spans, sid, ATTR_SUCCESS, PyBool(f.success), f.callno)
      r == TracerEnd([spans |-> s1, stack |-> tb.stack], tr, f.callno)
  IN IF f.drvOut.kind = "raise"
       THEN [spans |-> tb.spans, stack |-> tb.stack, ends |-> 0, log |-> <<>>]
       ELSE [spans |-> r.spans, stack |-> r.stack, ends |-> 1,
             log |-> <<Ev("add_attribute", ATTR_SUCCESS), Ev("end_span", "")>>]

\* variant: the span is ended before the outcome is recorded on it
Finally_endFirst(tb, f, sid, tr) ==
  LET r == TracerEnd(tb, tr, f.callno)
      s1 == SpanAddAttribute(r.spans, sid, ATTR_SUCCESS, PyBool(f.success), f.callno)
  IN [spans |-> s1, stack |-> r.stack, ends |-> 1,
      log |-> <<Ev("end_span", ""), Ev("add_attribute", ATTR_SUCCESS)>>]

\* finally: span.add_attribute(success); tracer.end_span()
\* runs on every way out of the try block
Finally(tb, f, sid, tr) ==
  LET s1 == SpanAddAttribute(tb.spans, sid, ATTR_SUCCESS, PyBool(f.success), f.callno)
      r == TracerEnd([spans |-> s1, stack |-> tb.stack], tr, f.callno)
  IN [spans |-> r.spans, stack |-> r.stack, ends |-> 1,
      log |-> <<Ev("add_attribute", ATTR_SUCCESS), Ev("end_span", "")>>]

\* the finally block, then the pending raise propagates or result is returned
finally_(t) ==
  /\ pc[t] = "finally"
  /\ LET f == frame[t]
         r == Finally([spans |-> spans, stack |-> stack], f, AttrSpan(t), EndTracer(t))
     IN /\ spans' = r.spans
        /\ stack' = r.stack
        /\ frame' = [frame EXCEPT ![t].out = CallOutcome(f.drvOut),
                                  ![t].log = @ \o r.log \o <<Ev(f.drvOut.kind, "")>>]
        /\ wrapperOps' = [wrapperOps EXCEPT !.end = @ + r.ends]
  /\ pc' = [pc EXCEPT ![t] = "done"]
  /\ UNCHANGED <<connVars, cursor, ambient, nCalls>>

\* the caller takes the result or the error and goes on
Ack(t) ==
  /\ pc[t] = "done"
  /\ pc' = [pc EXCEPT ![t] = "idle"]
  /\ frame' = [frame EXCEPT ![t] = NoFrame]
  /\ spans' = Exported(spans, stack, frame[t].callno)
  /\ UNCHANGED <<connVars, cursor, ambient, stack, wrapperOps, nCalls>>

(* --------------------------- environment ------------------------------- *)
\* execution_context.set_opencensus_tracer(v) in thread t; None is allowed
SetTracer(t, v) ==
  /\ pc[t] = "idle"
  /\ v # ambient[t]
  /\ ambient' = [ambient EXCEPT ![t] = v]
  /\ UNCHANGED <<connVars, cursor, callVars, traceVars>>

\* the application opens the span of its request, around its database work
AppStartSpan(t) ==
  /\ pc[t] = "idle"
  /\ ambient[t] # NoTracer
  /\ stack[ambient[t]] = <<>>
  /\ LET r == TracerStart([spans |-> spans, stack |-> stack], ambient[t], 0)
     IN spans' = r.spans /\ stack' = r.stack
  /\ UNCHANGED <<connVars, cursor, ambient, callVars, wrapperOps>>

\* ... and closes it
AppEndSpan(t) ==
  /\ pc[t] = "idle"
  /\ ambient[t] # NoTracer
  /\ stack[ambient[t]] # <<>>
  /\ LET r == TracerEnd([spans |-> spans, stack |-> stack], ambient[t], 0)
     IN spans' = Exported(r.spans, r.stack, 0) /\ stack' = r.stack
  /\ UNCHANGED <<connVars, cursor, ambient, callVars, wrapperOps>>

(* -------------------------- specifications ----------------------------- *)
Pristine ==
  /\ modules = [psycopg2 |-> [connect |-> "pg_connect"],
                trace |-> [connect |-> "connect", pg_connect |-> "pg_connect"]]
  /\ symWrites = [psycopg2 |-> 0, trace |-> 0]
  /\ installs = 0
  /\ lastConnect = NoConnect
  /\ conn = NoConn

Idle ==
  /\ cursor = [t \in Threads |-> NoCursor]
  /\ ambient = [t \in Threads |-> NoTracer]
  /\ pc = [t \in Threads |-> "idle"]
  /\ frame = [t \in Threads |-> NoFrame]
  /\ spans = [i \in {} |-> NewSpan(0, 0)]
  /\ stack = [tr \in Threads |-> <<>>]
  /\ wrapperOps = [start |-> 0, end |-> 0]
  /\ nCalls = 0

\* the module has been imported; nothing is installed, nothing connected
InitConn == Pristine /\ Idle

\* installation and connection: one thread, from import onwards
NextConn ==
  \/ trace_integration
  \/ \E pos \in ConnPos, kw \in ConnKw, env \in ConnEnv : connect(pos, kw, env)
  \/ NewCursor(1)
  \/ \E v \in {NoTracer, 1} : SetTracer(1, v)
  \/ \E m \in Methods, al \in ArgLists : Invoke(1, m, al)
  \/ \E env \in QueryEnv : direct(1, env)
  \/ \E env \in QueryEnv : passthrough(1, env)
  \/ start_span(1)
  \/ \E env \in QueryEnv : query_func(1, env)
  \/ finally_(1)
  \/ Ack(1)

SpecConn == InitConn /\ [][NextConn]_vars

\* the state after start-up: trace_integration() was called and the caller
\* holds a connection made by psycopg2.connect("dsn")
Installed ==
  /\ modules = [psycopg2 |-> [connect |-> "connect"],
                trace |-> [connect |-> "connect", pg_connect |-> "pg_connect"]]
  /\ symWrites = [psycopg2 |-> 1, trace |-> 0]
  /\ installs = 1
  /\ lastConnect = [seq |-> 1, installed |-> 1, entry |-> "connect", pos |-> <<"dsn">>, kw |-> EmptyKw,
                    env |-> "ok", drvCalls |-> 1, drvPos |-> <<"dsn">>,
                    drvKw |-> [cursor_factory |-> "TraceCursor"], drvErr |-> NoErr,
                    out |-> [kind |-> "return", err |-> NoErr,
                             conn |-> [open |-> TRUE, dsn |-> "dsn",
                                       cursor_factory |-> "TraceCursor", id |-> 1]]]
  /\ conn = lastConnect.out.conn

Init == Installed /\ Idle

\* query calls of several threads on cursors of the traced connection
Next ==
  \E t \in Threads :
    \/ NewCursor(t)
    \/ \E v \in {NoTracer, t} : SetTracer(t, v)
    \/ AppStartSpan(t)
    \/ AppEndSpan(t)
    \/ \E m \in Methods, al \in ArgLists : Invoke(t, m, al)
    \/ \E env \in QueryEnv : passthrough(t, env)
    \/ start_span(t)
    \/ \E env \in QueryEnv : query_func(t, env)
    \/ finally_(t)
    \/ Ack(t)

Spec == Init /\ [][Next]_vars


(* ----------------------------- claims ---------------------------------- *)
\* a call that went through the wrapper and found a tracer
Traced(t) == frame[t].wrapped /\ frame[t].tracer # NoTracer

\* a call that went through the wrapper, bound its arguments, found no tracer
Untraced(t) ==
  /\ frame[t].wrapped
  /\ frame[t].tracer = NoTracer
  /\ Len(frame[t].log) >= 1

\* positions at which the wrapper holds a span it has started and not ended
Holding == {"query_func", "finally"}

OwnSpans(t) == {i \in DOMAIN spans : spans[i].owner = frame[t].callno}

\* the query the caller wrote in its argument list
LiteralQuery(f) == IF Len(f.pos) >= 1 THEN f.pos[1] ELSE f.kw["query"]

\* C1: every traced call ends, exactly once and by itself, the one span it
\* started, whether the driver returned or raised; the wrapper's end_span
\* calls equal its start_span calls whenever no call is between the two, and
\* no span of a call that has returned or raised is open.
C1_SpanEndedExactlyOnce ==
  /\ \A t \in Threads :
       (pc[t] = "done" /\ Traced(t)) =>
         /\ OwnSpans(t) = {frame[t].span}
         /\ spans[frame[t].span].ended = 1
         /\ spans[frame[t].span].endedBy = {frame[t].callno}
         /\ ~OnStack(stack, frame[t].span)
  /\ wrapperOps.start - wrapperOps.end = Cardinality({t \in Threads : pc[t] \in Holding})
  /\ \A i \in DOMAIN spans :
       (spans[i].owner # 0 /\ (spans[i].ended = 0 \/ OnStack(stack, i))) =>
         \E t \in Threads : pc[t] \in Holding /\ frame[t].span = i

C1_Witness ==
  \E t \in Threads :
    /\ pc[t] = "done" /\ Traced(t)
    /\ frame[t].drvOut.kind = "raise"
    /\ spans[frame[t].span].ended = 1
    /\ wrapperOps.start = 2 /\ wrapperOps.end = 2

\* C2: a traced call whose driver method raises, whatever the error's type,
\* starts and ends exactly one span, records success = false on it and hands
\* the caller the very error instance the driver raised.
C2_FailureRecorded ==
  \A t \in Threads :
    (pc[t] = "done" /\ Traced(t) /\ frame[t].drvOut.kind = "raise") =>
      /\ OwnSpans(t) = {frame[t].span}
      /\ spans[frame[t].span].ended = 1
      /\ spans[frame[t].span].attrs[ATTR_SUCCESS] = "False"
      /\ frame[t].out = Raised(frame[t].drvOut.err)

\* C3: a traced call whose driver method returns starts and ends exactly one
\* span carrying dependency.type = 'postgresql', the literal query, the name
\* of the invoked method and success = true, and returns the driver's value.
C3_SuccessAttributes ==
  \A t \in Threads :
    (pc[t] = "done" /\ Traced(t) /\ frame[t].drvOut.kind = "return") =>
      /\ OwnSpans(t) = {frame[t].span}
      /\ spans[frame[t].span].ended = 1
      /\ spans[frame[t].span].attrs =
           [k \in AttrKeys |->
              IF k = ATTR_TYPE THEN "postgresql"
              ELSE IF k = ATTR_QUERY THEN LiteralQuery(frame[t])
              ELSE IF k = ATTR_METHOD THEN frame[t].method
              ELSE "True"]
      /\ frame[t].drvCalls = 1
      /\ frame[t].out = Returned(frame[t].drvOut.val)

C3_Witness ==
  \E t \in Threads :
    /\ pc[t] = "done" /\ Traced(t)
    /\ frame[t].method = "execute"
    /\ frame[t].out = Returned("r1")
    /\ spans[frame[t].span].attrs[ATTR_QUERY] = "SELECT 1"
    /\ spans[frame[t].span].attrs[ATTR_METHOD] = "execute"

\* C4: a wrapped call made while no tracer is bound, with arguments the driver
\* accepts, starts no span, sets no attribute and ends no span; the driver is
\* called once, executes what a direct call with the caller's arguments would
\* execute, and its value or error is the caller's.
C4_PassThrough ==
  \A t \in Threads :
    (pc[t] = "done" /\ Untraced(t)
       /\ DriverBinds(frame[t].method, frame[t].pos, frame[t].kw)) =>
      /\ frame[t].span = 0
      /\ \A i \in DOMAIN spans :
           /\ spans[i].owner # frame[t].callno
           /\ frame[t].callno \notin spans[i].attrsBy
           /\ frame[t].callno \notin spans[i].endedBy
      /\ frame[t].log = <<Ev("get_opencensus_tracer", ""), Ev("query_func", "")>>
      /\ frame[t].drvCalls = 1
      /\ DriverBinds(frame[t].method, frame[t].drvPos, frame[t].drvKw)
      /\ DriverStatement(frame[t].method, frame[t].drvPos, frame[t].drvKw)
           = DriverStatement(frame[t].method, frame[t].pos, frame[t].kw)
      /\ frame[t].out = frame[t].drvOut

\* an untraced call on a thread after the wrapper has already traced a call
C4_Witness ==
  \E t \in Threads :
    /\ pc[t] = "done" /\ Untraced(t)
    /\ DriverBinds(frame[t].method, frame[t].pos, frame[t].kw)
    /\ frame[t].drvCalls = 1
    /\ Len(frame[t].pos) = 2
    /\ wrapperOps.start >= 1

\* C8: in a traced call the events are, in this order: tracer fetched, span
\* started, the three attributes set, the driver method called once with the
\* caller's arguments, success set, span ended, and only then the return or
\* the raise; the span is open while the driver call is pending and closed
\* when the caller has control again.
C8_EventOrder ==
  \A t \in Threads :
    /\ (pc[t] = "done" /\ Traced(t)) =>
         /\ frame[t].log =
              <<Ev("get_opencensus_tracer", ""), Ev("start_span", ""),
                Ev("add_attribute", ATTR_TYPE), Ev("add_attribute", ATTR_QUERY),
                Ev("add_attribute", ATTR_METHOD), Ev("query_func", ""),
                Ev("add_attribute", ATTR_SUCCESS), Ev("end_span", ""),
                Ev(frame[t].out.kind, "")>>
         /\ frame[t].out.kind \in {"return", "raise"}
         /\ frame[t].drvCalls = 1
         /\ frame[t].drvPos = <<LiteralQuery(frame[t])>> \o CallArgs(frame[t].pos)
         /\ spans[frame[t].span].ended = 1
         /\ spans[frame[t].span].attrs[ATTR_SUCCESS] # "unset"
    /\ (pc[t] \in Holding) =>
         /\ spans[frame[t].span].ended = 0
         /\ spans[frame[t].span].attrs[ATTR_SUCCESS] = "unset"
         /\ frame[t].out = NoOutcome
    /\ (pc[t] = "query_func") => frame[t].drvCalls = 0

C8_Witness ==
  \E t \in Threads :
    /\ pc[t] = "done" /\ Traced(t)
    /\ Len(frame[t].log) = 9
    /\ frame[t].out.kind = "raise"

\* C9: with every thread on its own tracer, in any interleaving, a call's
\* span lives on the tracer of its own thread, only that call writes its
\* attributes and ends it, and the query, method name and success flag on it
\* are the call's own; the application's spans are never touched.
C9_NoCrossTalk ==
  /\ \A i \in DOMAIN spans :
       /\ spans[i].attrsBy \subseteq {spans[i].owner} \ {0}
       /\ spans[i].endedBy \subseteq {spans[i].owner}
  /\ \A t \in Threads :
       (pc[t] \in Holding \cup {"done"} /\ Traced(t)) =>
         /\ frame[t].span \in DOMAIN spans
         /\ spans[frame[t].span].owner = frame[t].callno
         /\ spans[frame[t].span].tracer = t
         /\ spans[frame[t].span].attrs[ATTR_QUERY] = LiteralQuery(frame[t])
         /\ spans[frame[t].span].attrs[ATTR_METHOD] = frame[t].method
         /\ (pc[t] = "done") =>
              /\ spans[frame[t].span].attrs[ATTR_SUCCESS] = PyBool(frame[t].success)
              /\ spans[frame[t].span].endedBy = {frame[t].callno}

\* two calls in flight at once, each holding a span, with different queries
C9_Witness ==
  /\ pc[1] = "finally" /\ pc[2] = "done"
  /\ Traced(1) /\ Traced(2)
  /\ frame[1].query # frame[2].query
  /\ frame[1].callno > frame[2].callno
  /\ spans[frame[1].span].ended = 0
  /\ spans[frame[2].span].ended = 1


\* C5: every call of the patched connect that the driver would accept hands
\* the driver TraceCursor as its cursor factory, whatever else was supplied
\* (a caller's cursor factory included), hands on every other parameter
\* unchanged and returns the driver's connection as it is.
C5_CursorFactoryForced ==
  (/\ lastConnect.entry = "connect"
   /\ pg_connect(lastConnect.pos, lastConnect.kw, lastConnect.env, lastConnect.seq).kind
        = "return") =>
    /\ lastConnect.drvCalls = 1
    /\ PgConnectBinds(lastConnect.drvPos, lastConnect.drvKw)
    /\ PgConnectParam(lastConnect.drvPos, lastConnect.drvKw, 3) = "TraceCursor"
    /\ \A i \in 1..2 : PgConnectParam(lastConnect.drvPos, lastConnect.drvKw, i)
                         = PgConnectParam(lastConnect.pos, lastConnect.kw, i)
    /\ \A k \in (DOMAIN lastConnect.kw) \ {"cursor_factory"} :
         k \in DOMAIN lastConnect.drvKw /\ lastConnect.drvKw[k] = lastConnect.kw[k]
    /\ lastConnect.out
         = pg_connect(lastConnect.drvPos, lastConnect.drvKw, lastConnect.env, lastConnect.seq)
    /\ lastConnect.out.kind = "return"
    /\ lastConnect.out.conn.cursor_factory = "TraceCursor"

C7_SymbolWrittenOnce ==
  [][/\ symWrites'["psycopg2"] <= 1
     /\ (installs' = installs) =>
          /\ modules'["psycopg2"] = modules["psycopg2"]
          /\ symWrites'["psycopg2"] = symWrites["psycopg2"]
     /\ (installs' >= 1) =>
          /\ symWrites'["psycopg2"] = 1
          /\ modules'["psycopg2"]["connect"] = "connect"]_vars

C7_Witness ==
  /\ installs = 2
  /\ symWrites["psycopg2"] = 1
  /\ modules["psycopg2"]["connect"] = "connect"
  /\ lastConnect.entry = "connect"
  /\ cursor[1].cls = "TraceCursor"
  /\ pc[1] = "done" /\ Traced(1)

\* C10: after one or more calls of trace_integration the symbol tables are
\* those after one call, and every call of the patched connect calls the
\* original driver connect exactly once.
C10_InstallIdempotent ==
  (installs >= 1) =>
    /\ modules = [psycopg2 |-> [connect |-> "connect"],
                  trace |-> [connect |-> "connect", pg_connect |-> "pg_connect"]]
    /\ (lastConnect.entry = "connect") => lastConnect.drvCalls = 1

C10_Witness ==
  /\ installs = 2
  /\ lastConnect.installed = 2
  /\ lastConnect.entry = "connect"
  /\ lastConnect.drvCalls = 1
  /\ lastConnect.out.kind = "return"

====
